---- MODULE Spec2Model ----
(***************************************************************************)
(* Model of fixed_quiz_parser.py: parse_quiz_xml_to_dataframe.             *)
(*                                                                         *)
(* Element names, attribute values and text contents are sequences of     *)
(* one-character strings, so that the case-sensitive and case-insensitive  *)
(* matches of the code (XPath starts-with, EXSLT re:match with the "i"     *)
(* flag, str.upper, str.lower, str.strip) are computed, not assumed.       *)
(***************************************************************************)
EXTENDS Integers, Sequences, FiniteSets, TLC

(* ------------------------------------------------------------------ *)
(* Bounds of the model                                                 *)
(* ------------------------------------------------------------------ *)

\* largest number of item nodes in a document of Spec made of items of SmallPool
MaxItems == 3

\* largest number of item nodes in a document of Spec made of items of Pool
MaxVariedItems == 1

\* number of item nodes in the documents of SpecPair
MaxPairItems == 2

(* ------------------------------------------------------------------ *)
(* Characters and strings                                              *)
(* ------------------------------------------------------------------ *)

LowerChars == <<"a","b","c","d","e","f","g","h","i","j","k","l","m",
                "n","o","p","q","r","s","t","u","v","w","x","y","z">>

UpperChars == <<"A","B","C","D","E","F","G","H","I","J","K","L","M",
                "N","O","P","Q","R","S","T","U","V","W","X","Y","Z">>

DigitChars == <<"0","1","2","3","4","5","6","7","8","9">>

IndexIn(c, table) == CHOOSE i \in 1..Len(table) : table[i] = c

IsIn(c, table) == \E i \in 1..Len(table) : table[i] = c

\* every character of the names, values and texts of the model
CharSet ==
    { LowerChars[i] : i \in 1..Len(LowerChars) }
    \cup { UpperChars[i] : i \in 1..Len(UpperChars) }
    \cup { DigitChars[i] : i \in 1..Len(DigitChars) }
    \cup { " ", "\n", "\t", "_", "?", "<", ">", "/", "&", ";" }

UpperOf ==
    [c \in CharSet |-> IF IsIn(c, LowerChars) THEN UpperChars[IndexIn(c, LowerChars)] ELSE c]

LowerOf ==
    [c \in CharSet |-> IF IsIn(c, UpperChars) THEN LowerChars[IndexIn(c, UpperChars)] ELSE c]

DigitSet == { DigitChars[i] : i \in 1..Len(DigitChars) }

DigitOf == [c \in DigitSet |-> IndexIn(c, DigitChars) - 1]

\* str.upper() on one character
ToUpper(c) == UpperOf[c]

\* str.lower() on one character
ToLower(c) == LowerOf[c]

\* str.upper()
UpperStr(s) == [i \in 1..Len(s) |-> ToUpper(s[i])]

\* str.lower()
LowerStr(s) == [i \in 1..Len(s) |-> ToLower(s[i])]

IsDigit(c) == c \in DigitSet

DigitVal(c) == DigitOf[c]

IsSpace(c) == c \in {" ", "\n", "\t"}

RECURSIVE LStrip(_)
LStrip(s) == IF s # <<>> /\ IsSpace(Head(s)) THEN LStrip(Tail(s)) ELSE s

RECURSIVE RStrip(_)
RStrip(s) == IF s # <<>> /\ IsSpace(s[Len(s)]) THEN RStrip(SubSeq(s, 1, Len(s) - 1)) ELSE s

\* str.strip()
Strip(s) == RStrip(LStrip(s))

\* XPath starts-with(s, p): case-sensitive
StartsWith(s, p) == Len(s) >= Len(p) /\ SubSeq(s, 1, Len(p)) = p

\* re:match(s, pat, "i") for a literal pattern without anchors: pat occurs
\* somewhere in s, letter case ignored
ReMatchI(s, pat) ==
    LET us == UpperStr(s)
        up == UpperStr(pat)
    IN  \E i \in 1..(Len(s) - Len(pat) + 1) : SubSeq(us, i, i + Len(pat) - 1) = up

\* start of the run of digits that ends the string (Len(s)+1 when none)
RECURSIVE DigitRunStart(_, _)
DigitRunStart(s, i) ==
    IF i >= 1 /\ IsDigit(s[i]) THEN DigitRunStart(s, i - 1) ELSE i + 1

RECURSIVE DecimalValue(_)
DecimalValue(d) ==
    IF d = <<>> THEN 0
    ELSE 10 * DecimalValue(SubSeq(d, 1, Len(d) - 1)) + DigitVal(d[Len(d)])

\* re.search(r"(\d+)$", s): TRUE when s ends in a digit
HasTrailingNumber(s) == s # <<>> /\ IsDigit(s[Len(s)])

\* int(match.group(1)) of re.search(r"(\d+)$", s)
TrailingNumber(s) == DecimalValue(SubSeq(s, DigitRunStart(s, Len(s)), Len(s)))

RECURSIVE Concat(_)
Concat(ss) == IF ss = <<>> THEN <<>> ELSE Head(ss) \o Concat(Tail(ss))

(* ------------------------------------------------------------------ *)
(* Element names                                                       *)
(* ------------------------------------------------------------------ *)

QUIZ_BANK == <<"Q","U","I","Z","_","B","A","N","K">>

QUIZ_ITEM == <<"Q","U","I","Z","_","I","T","E","M">>

QUESTION == <<"Q","U","E","S","T","I","O","N">>

OPTION == <<"O","P","T","I","O","N">>

TOPIC == <<"T","O","P","I","C">>

TAG == <<"T","A","G">>

TRUE_STR == <<"t","r","u","e">>

FALSE_STR == <<"f","a","l","s","e">>

option_lower == <<"o","p","t","i","o","n">>

\* the name OPTION<n>, option<n>, ... for a prefix in some letter case
OptName(prefix, n) ==
    IF n < 10 THEN prefix \o <<DigitChars[n + 1]>>
    ELSE prefix \o <<DigitChars[(n \div 10) + 1], DigitChars[(n % 10) + 1]>>

(* ------------------------------------------------------------------ *)
(* Input documents                                                     *)
(*                                                                     *)
(* A document is the element tree the text denotes: an optional        *)
(* wrapper element around the container, the container with its topic  *)
(* attribute (<<>> when absent), and the item nodes in document order. *)
(* An item is its direct children in document order, each with its     *)
(* name, its text content and its correct attribute (<<>> when absent).*)
(* ------------------------------------------------------------------ *)

\* The content of an element is a sequence of nodes: text nodes, with their
\* characters as written in the document (written) and as parsed (chars,
\* entity references resolved), and element nodes with their own content;
\* short is TRUE for an empty element written <name/>.
TextNode(chars) ==
    [kind |-> "text", written |-> chars, chars |-> chars,
     name |-> <<>>, children |-> <<>>, short |-> FALSE]

WrittenText(written, chars) ==
    [kind |-> "text", written |-> written, chars |-> chars,
     name |-> <<>>, children |-> <<>>, short |-> FALSE]

ElemNode(name, children, short) ==
    [kind |-> "elem", written |-> <<>>, chars |-> <<>>,
     name |-> name, children |-> children, short |-> short]

OpenTag(name) == <<"<">> \o name \o <<">">>

CloseTag(name) == <<"<", "/">> \o name \o <<">">>

\* the text of the document between the tags of an element with this content
RECURSIVE RawText(_)
RawText(nodes) ==
    IF nodes = <<>> THEN <<>>
    ELSE LET n == Head(nodes)
         IN  (IF n.kind = "text" THEN n.written
              ELSE IF n.short THEN <<"<">> \o n.name \o <<"/", ">">>
              ELSE OpenTag(n.name) \o RawText(n.children) \o CloseTag(n.name))
             \o RawText(Tail(nodes))

\* an element with text content only (text is its text as written and as parsed)
Elem(tag, text, correct) ==
    [tag |-> tag, text |-> text, correct |-> correct,
     nodes |-> IF text = <<>> THEN <<>> ELSE <<TextNode(text)>>]

\* an element with mixed content
MarkupElem(tag, nodes, correct) ==
    [tag |-> tag, text |-> RawText(nodes), correct |-> correct, nodes |-> nodes]

Item(tag, children) == [tag |-> tag, children |-> children]

Doc(empty, wrapper, banktag, topic, items) ==
    [empty |-> empty, wrapper |-> wrapper,
     bank |-> [tag |-> banktag, topic |-> topic, items |-> items],
     before |-> <<>>, after |-> <<>>]

OptionPrefixMixed == <<"O","p","t","i","o","n">>

\* the k-th option child of an item, named prefix<n>: its text is the
\* k-th letter with blanks around it
OptionElem(prefix, n, k, correct) ==
    Elem(OptName(prefix, n), <<" ", LowerChars[k], " ">>, correct)

\* option children named prefix<ns[k]>, with the expected correct attributes
Opts(prefix, ns) ==
    [k \in 1..Len(ns) |->
        OptionElem(prefix, ns[k], k, IF ns[k] = 1 THEN TRUE_STR ELSE FALSE_STR)]

FiveUpper == Opts(OPTION, <<1, 2, 3, 4, 5>>)

br == <<"b", "r">>

GtEntity == <<"&", "g", "t", ";">>

\* the contents of the question and option elements that have markup in
\* them: a <pre><code> block, a > written as an entity and as itself, an
\* empty <br/>, an element named like the field
MarkupRuns ==
    { <<TextNode(<<" ", "a", " ">>),
        ElemNode(<<"p", "r", "e">>,
                 <<ElemNode(<<"c", "o", "d", "e">>, <<TextNode(<<"x", "\n", "y">>)>>, FALSE)>>,
                 FALSE),
        TextNode(<<"\n">>)>>,
      <<TextNode(<<"a", " ">>), WrittenText(GtEntity, <<">">>), TextNode(<<" ", "b">>)>>,
      <<TextNode(<<"a", " ">>), WrittenText(<<">">>, <<">">>), TextNode(<<" ", "b">>)>>,
      <<TextNode(<<"a">>), ElemNode(br, <<>>, TRUE), TextNode(<<"b">>)>>,
      <<TextNode(<<"a">>), ElemNode(LowerStr(QUESTION), <<TextNode(<<"b">>)>>, FALSE),
        TextNode(<<"c">>)>> }

OptionRuns ==
    { FiveUpper,
      Opts(OPTION, <<1, 2, 3, 4>>),
      Opts(OPTION, <<1, 2, 3, 4, 5, 6>>),
      Opts(OPTION, <<1, 2, 2, 4, 5>>),
      Opts(OPTION, <<10, 2, 3, 4, 5>>),
      Opts(OPTION, <<5, 4, 3, 2, 1>>),
      Opts(option_lower, <<1, 2, 3, 4, 5>>),
      Opts(OptionPrefixMixed, <<1, 2, 3, 4, 5>>),
      Opts(option_lower, <<1, 2>>) \o Opts(OPTION, <<3>>) \o Opts(option_lower, <<4, 5>>),
      FiveUpper \o <<OptionElem(OptionPrefixMixed, 6, 6, FALSE_STR)>>,
      FiveUpper \o <<OptionElem(OptionPrefixMixed, 1, 6, TRUE_STR)>>,
      <<OptionElem(<<"M","Y">> \o OPTION, 1, 6, TRUE_STR)>> \o FiveUpper,
      [k \in 1..5 |-> OptionElem(OPTION, k, k, IF k = 1 THEN <<"T","r","u","e">> ELSE <<"F","A","L","S","E">>)],
      [k \in 1..5 |-> OptionElem(OPTION, k, k, IF k = 2 THEN TRUE_STR ELSE <<>>)],
      [k \in 1..5 |-> OptionElem(OPTION, k, k, FALSE_STR)],
      [k \in 1..5 |-> OptionElem(OPTION, k, k, IF k <= 2 THEN TRUE_STR ELSE FALSE_STR)],
      <<MarkupElem(OptName(OPTION, 1),
                   <<TextNode(<<" ">>),
                     ElemNode(<<"c", "o", "d", "e">>, <<TextNode(<<"x">>)>>, FALSE)>>,
                   TRUE_STR)>> \o Opts(OPTION, <<2, 3, 4, 5>>),
      <<OptionElem(OPTION, 10, 6, FALSE_STR), OptionElem(OptionPrefixMixed, 1, 1, TRUE_STR)>>
          \o [k \in 1..4 |-> OptionElem(OPTION, k + 1, k + 1, FALSE_STR)] }

QuestionText == <<" ", "w", "h", "y", "?", "\n">>

StdQuestion == <<Elem(QUESTION, QuestionText, <<>>)>>

QuestionRuns ==
    { StdQuestion,
      <<>>,
      <<Elem(LowerStr(QUESTION), QuestionText, <<>>)>> }
    \cup { <<MarkupElem(QUESTION, nodes, <<>>)>> : nodes \in MarkupRuns }

ItemTopicText == <<"t", "1">>

StdTopic == <<Elem(TOPIC, <<" ">> \o ItemTopicText, <<>>)>>

TopicRuns ==
    { StdTopic,
      <<>>,
      <<Elem(<<"T","o","p","i","c">>, ItemTopicText, <<>>)>>,
      <<Elem(TOPIC, <<>>, <<>>)>>,
      <<Elem(<<"S","U","B">> \o TOPIC, <<"s">>, <<>>)>> }

StdTag == <<Elem(TAG, <<"g", " ">>, <<>>)>>

TagRuns ==
    { StdTag,
      <<>>,
      <<Elem(TAG \o <<"S">>, <<"s">>, <<>>)>> }

\* question[:70]
SnippetLen == 70

MkItem(q, opts, topic, tagf) == Item(QUIZ_ITEM, q \o opts \o topic \o tagf)

StdItem == MkItem(StdQuestion, FiveUpper, StdTopic, StdTag)

\* the items of the documents: the well-formed item and its variations
Pool ==
    { MkItem(StdQuestion, o, StdTopic, StdTag) : o \in OptionRuns }
    \cup { MkItem(q, FiveUpper, StdTopic, StdTag) : q \in QuestionRuns }
    \cup { MkItem(StdQuestion, FiveUpper, t, StdTag) : t \in TopicRuns }
    \cup { MkItem(StdQuestion, FiveUpper, StdTopic, g) : g \in TagRuns }
    \cup { MkItem(<<>>, Opts(OPTION, <<1, 2, 3, 4>>), StdTopic, StdTag),
           Item(LowerStr(QUIZ_ITEM), StdItem.children) }

\* the items of the documents whose container or wrapper varies
SmallPool ==
    { StdItem,
      MkItem(StdQuestion, Opts(OPTION, <<1, 2, 3, 4>>), StdTopic, StdTag),
      MkItem(StdQuestion, FiveUpper, <<>>, StdTag),
      Item(LowerStr(QUIZ_ITEM), StdItem.children) }

ItemSeqs(pool, n) == UNION { [1..k -> pool] : k \in 0..n }

MainTopic == <<"m">>

Wrappers == { <<>>, <<"h","t","m","l">>, QUIZ_BANK \o <<"S">> }

BankTags == { QUIZ_BANK, LowerStr(QUIZ_BANK), <<"Q","U","I","Z">> }

EmptyDoc == Doc(TRUE, <<>>, <<>>, <<>>, <<>>)

None == "None"

\* chapter_no and chapter_title: not passed, or passed
ChapterArgs == { <<None, None>>, <<"1", "Intro">> }

Call(doc, args) == [doc |-> doc, chapter_no |-> args[1], chapter_title |-> args[2]]

\* the calls of Spec: the items of Pool in the plain container; the sequences
\* of items of SmallPool in every container and wrapper, with and without the
\* topic attribute, and in the plain container with the chapter arguments
\* passed; the sequences of the standard item, an item without a question
\* that has four options, and an item whose question is longer than a snippet;
\* and the empty text
Calls ==
    { Call(Doc(FALSE, <<>>, QUIZ_BANK, MainTopic, s), <<None, None>>) :
        s \in ItemSeqs({ StdItem,
                         MkItem(<<>>, Opts(OPTION, <<1, 2, 3, 4>>), StdTopic, StdTag),
                         MkItem(<<Elem(QUESTION, [k \in 1..(SnippetLen + 2) |-> "Q"], <<>>)>>,
                                FiveUpper, StdTopic, StdTag) }, MaxItems) }
    \cup
    { Call(Doc(FALSE, <<>>, QUIZ_BANK, MainTopic, s), <<None, None>>) :
        s \in ItemSeqs(Pool, MaxVariedItems) }
    \cup { Call(Doc(FALSE, w[1], w[2], t, s), <<None, None>>) :
        w \in Wrappers \X BankTags, t \in { <<>>, MainTopic },
        s \in ItemSeqs(SmallPool, MaxItems) }
    \cup { Call(Doc(FALSE, <<>>, QUIZ_BANK, t, s), <<"1", "Intro">>) :
        t \in { <<>>, MainTopic }, s \in ItemSeqs(SmallPool, MaxItems) }
    \cup { Call(EmptyDoc, args) : args \in ChapterArgs }

(* ------------------------------------------------------------------ *)
(* parse_quiz_xml_to_dataframe: the text clean-up and the structural   *)
(* parse                                                               *)
(* ------------------------------------------------------------------ *)

\* re.sub(r"^.*?<QUIZ_BANK", "<QUIZ_BANK", ...): everything before the first
\* "<QUIZ_BANK" of the text goes, the wrapper's opening tag with it when the
\* first element whose name starts with QUIZ_BANK is the container;
\* re.sub(r"</QUIZ_BANK>.*?$", "</QUIZ_BANK>", ...): everything after the first
\* "</QUIZ_BANK>" of the text goes; .strip(): what is left of the text before
\* and after loses its outer whitespace. Both patterns are case-sensitive.
\* The text before and after the elements holds no "<".
CleanXml(doc) ==
    IF /\ ~doc.empty
       /\ doc.wrapper # <<>>
       /\ ~StartsWith(doc.wrapper, QUIZ_BANK)
       /\ StartsWith(doc.bank.tag, QUIZ_BANK)
    THEN [doc EXCEPT !.wrapper = <<>>, !.before = <<>>,
                     !.after = IF doc.bank.tag = QUIZ_BANK THEN <<>> ELSE RStrip(@)]
    ELSE [doc EXCEPT
            !.before = IF \/ doc.wrapper # <<>> /\ StartsWith(doc.wrapper, QUIZ_BANK)
                          \/ StartsWith(doc.bank.tag, QUIZ_BANK)
                       THEN <<>> ELSE LStrip(@),
            !.after = IF doc.bank.tag = QUIZ_BANK \/ doc.wrapper = QUIZ_BANK
                      THEN <<>> ELSE RStrip(@)]

\* the tag of the root that etree.fromstring returns for the cleaned text
RootTag(doc) == IF doc.wrapper # <<>> THEN doc.wrapper ELSE doc.bank.tag

\* root.find(".//QUIZ_BANK") is not None: a descendant named exactly QUIZ_BANK
FindsNestedBank(doc) == doc.wrapper # <<>> /\ doc.bank.tag = QUIZ_BANK

\* the parse ends in the except branch: no root (empty text, or text before
\* the first tag: the recovering parser returns None), or a root that is not
\* the container and has no QUIZ_BANK below it; text after the root's closing
\* tag is dropped by the recovering parser
ParseIsFatal(doc) ==
    \/ doc.empty
    \/ doc.before # <<>>
    \/ /\ UpperStr(RootTag(doc)) # QUIZ_BANK
       /\ ~FindsNestedBank(doc)

\* root.xpath(".//QUIZ_ITEM"): the descendants named exactly QUIZ_ITEM
FindQuizItems(bank) == SelectSeq(bank.items, LAMBDA it : it.tag = QUIZ_ITEM)

\* root.get("topic", "")
GetMainTopic(bank) == bank.topic

(* ------------------------------------------------------------------ *)
(* parse_quiz_xml_to_dataframe: one item                               *)
(* ------------------------------------------------------------------ *)

\* item.find("./QUESTION") is not None
HasQuestion(item) == \E k \in 1..Len(item.children) : item.children[k].tag = QUESTION

\* item.find("./QUESTION"): the first direct child named exactly QUESTION
QuestionElement(item) ==
    item.children[CHOOSE k \in 1..Len(item.children) :
        /\ item.children[k].tag = QUESTION
        /\ \A j \in 1..(k - 1) : item.children[j].tag # QUESTION]

\* the escaping of one character of a text node by the serializer
EscapeChar(c) ==
    IF c = ">" THEN GtEntity
    ELSE IF c = "<" THEN <<"&", "l", "t", ";">>
    ELSE IF c = "&" THEN <<"&", "a", "m", "p", ";">>
    ELSE <<c>>

\* elements that method="html" writes as an opening tag only
VoidElements == { br, <<"h", "r">>, <<"i", "m", "g">> }

\* etree.tostring(element, encoding="unicode", method="html"), for the
\* content of the element
RECURSIVE SerializeHtml(_)
SerializeHtml(nodes) ==
    IF nodes = <<>> THEN <<>>
    ELSE LET n == Head(nodes)
         IN  (IF n.kind = "text"
              THEN Concat([i \in 1..Len(n.chars) |-> EscapeChar(n.chars[i])])
              ELSE IF LowerStr(n.name) \in VoidElements THEN OpenTag(n.name)
              ELSE OpenTag(n.name) \o SerializeHtml(n.children) \o CloseTag(n.name))
             \o SerializeHtml(Tail(nodes))

\* group(1) of re.search(r"<tag\b[^>]*>(.*?)</tag>", html, DOTALL | IGNORECASE):
\* what follows the opening tag, up to the first closing tag of that name,
\* letter case ignored
RegexGroup(tag, inner) ==
    LET html == inner \o CloseTag(tag)
        us == UpperStr(html)
        up == UpperStr(CloseTag(tag))
        At(i) == SubSeq(us, i, i + Len(up) - 1) = up
        first == CHOOSE i \in 1..(Len(us) - Len(up) + 1) : At(i) /\ \A j \in 1..(i - 1) : ~At(j)
    IN  SubSeq(html, 1, first - 1)

\* the content of the element as the code extracts it: serialized, matched, stripped
InnerContent(el) == Strip(RegexGroup(el.tag, SerializeHtml(el.nodes)))

\* a faulty variant of Snippet: the question is not cut
SnippetUncut(question) == Strip(question)

\* question[:70].strip()
Snippet(question) ==
    Strip(SubSeq(question, 1, IF Len(question) < SnippetLen THEN Len(question) ELSE SnippetLen))

\* re:match(name, "^OPTION[1-5]$", "i")
MatchesOption1To5(name) ==
    /\ Len(name) = Len(OPTION) + 1
    /\ UpperStr(SubSeq(name, 1, Len(OPTION))) = OPTION
    /\ name[Len(name)] \in {"1", "2", "3", "4", "5"}

\* option_elements_found
OptionElementsFound(item) ==
    SelectSeq(item.children, LAMBDA c : MatchesOption1To5(c.tag))

\* all_option_tags: starts-with(name, "OPTION") or starts-with(name, "option")
AllOptionTags(item) ==
    SelectSeq(item.children,
              LAMBDA c : StartsWith(c.tag, OPTION) \/ StartsWith(c.tag, option_lower))

ExpectedOptionCount == 5

\* len(all_option_tags) != 5
OptionCountWrong(item) == Len(AllOptionTags(item)) # ExpectedOptionCount

\* option_numbers_found, up to the element the loop breaks at
OptionNumbersFound(item) ==
    LET found == OptionElementsFound(item)
    IN  { TrailingNumber(found[k].tag) :
            k \in { j \in 1..Len(found) :
                      \A h \in 1..j : HasTrailingNumber(found[h].tag) } }

\* valid_options_1_to_5
ValidOptions1To5(item) ==
    LET found == OptionElementsFound(item)
    IN  \A k \in 1..Len(found) : HasTrailingNumber(found[k].tag)

\* faulty variant: the numbering check of line 144 left out
OptionNumbersUnchecked(item) == FALSE

\* not valid_options_1_to_5 or option_numbers_found != {1, 2, 3, 4, 5}
OptionNumbersWrong(item) ==
    \/ ~ValidOptions1To5(item)
    \/ OptionNumbersFound(item) # {1, 2, 3, 4, 5}

\* faulty variant: range(1, 5)
OptionRangeShort == 1..4

\* range(1, 6)
OptionRange == 1..5

\* the children that item.xpath('./*[re:match(local-name(), "OPTION{i}", "i")]') returns
OptionMatches(item, i) ==
    SelectSeq(item.children, LAMBDA c : ReMatchI(c.tag, OptName(OPTION, i)))

\* ...[0] raises IndexError for some i of the range
ExtractionRaises(item) == \E i \in OptionRange : OptionMatches(item, i) = <<>>

\* option_element: the first match
OptionElement(item, i) == Head(OptionMatches(item, i))

\* options, appended for i = 1, 2, ... in order
ExtractOptions(item) ==
    LET n == Cardinality(OptionRange)
    IN  [k \in 1..n |->
            InnerContent(OptionElement(item,
                CHOOSE i \in OptionRange : Cardinality({ j \in OptionRange : j < i }) = k - 1))]

\* faulty variant: only the attribute of OPTION1 is checked
CorrectMismatchFirstOnly(item, i) ==
    i = 1 /\ LowerStr(Head(OptionMatches(item, i)).correct) # TRUE_STR

\* the attribute checks of lines 197-208: TRUE when the warning is printed
CorrectMismatch(item, i) ==
    LET value == LowerStr(OptionElement(item, i).correct)
    IN  IF i = 1 THEN value # TRUE_STR ELSE value # FALSE_STR

\* the text nodes that './*[re:match(local-name(), pat, "i")]/text()' returns
TextNodes(item, pat) ==
    LET hits == SelectSeq(item.children, LAMBDA c : ReMatchI(c.tag, pat) /\ c.text # <<>>)
    IN  [k \in 1..Len(hits) |-> hits[k].text]

\* topic
ItemTopic(item, mainTopic) ==
    IF TextNodes(item, TOPIC) # <<>> THEN Strip(Concat(TextNodes(item, TOPIC))) ELSE mainTopic

\* tag
ItemTag(item) ==
    IF TextNodes(item, TAG) # <<>> THEN Strip(Concat(TextNodes(item, TAG))) ELSE <<>>

\* correct_index = 1
CorrectIndex == 1

\* chapter_no or ""
OrEmpty(arg) == IF arg = None THEN "" ELSE arg

\* the dict appended to quiz_data
BuildRecord(item, mainTopic, chNo, chTitle) ==
    [text |-> InnerContent(QuestionElement(item)),
     options |-> ExtractOptions(item),
     answerIndex |-> CorrectIndex,
     topic |-> ItemTopic(item, mainTopic),
     tag |-> ItemTag(item),
     chapter_no |-> OrEmpty(chNo),
     CHAPTER_TITLE |-> OrEmpty(chTitle)]

\* faulty variant: quiz_data.insert(0, ...)
PrependRecord(data, rec) == <<rec>> \o data

\* quiz_data.append(...)
AppendRecord(data, rec) == Append(data, rec)

\* faulty variant: the skip is not counted
SkipUncounted(n) == n

\* skipped_count += 1
SkipCounted(n) == n + 1

\* faulty variant: break, the loop ends at the rejected item
BreakLoop(i, n) == n

\* continue: the loop goes on with the next item
ContinueLoop(i, n) == i + 1

\* what the loop body does with one item
Classify(item) ==
    IF ~HasQuestion(item) THEN "no_question"
    ELSE IF OptionCountWrong(item) THEN "option_count"
    ELSE IF OptionNumbersWrong(item) THEN "option_numbers"
    ELSE IF ExtractionRaises(item) THEN "exception"
    ELSE "accept"

\* a printed line: the loop position it was printed at (0 outside the loop),
\* what it says, and the number and the snippet it carries
Msg(at, kind, n, snippet) == [at |-> at, kind |-> kind, n |-> n, snippet |-> snippet]

\* the warnings of lines 197-208 for one accepted item, in the order printed
RECURSIVE CorrectWarnings(_, _, _)
CorrectWarnings(item, at, i) ==
    IF i \notin OptionRange THEN <<>>
    ELSE (IF CorrectMismatch(item, i)
          THEN <<Msg(at, "correct_attribute", i, Snippet(InnerContent(QuestionElement(item))))>>
          ELSE <<>>) \o CorrectWarnings(item, at, i + 1)

(* ------------------------------------------------------------------ *)
(* parse_quiz_xml_to_dataframe: the result                             *)
(* ------------------------------------------------------------------ *)

expected_cols == <<"text", "options", "answerIndex", "topic", "tag", "chapter_no", "CHAPTER_TITLE">>

\* pd.DataFrame()
EmptyFrame == [columns |-> <<>>, rows |-> <<>>]

\* pd.DataFrame(quiz_data), then the columns of expected_cols that are missing
FrameOf(data) == [columns |-> expected_cols, rows |-> data]

(* ------------------------------------------------------------------ *)
(* enhance_quiz_dataframe: frames                                      *)
(*                                                                     *)
(* A frame of enhance_quiz_dataframe has its column names in order,    *)
(* its row labels (the index) in order, and its rows in order, each a  *)
(* function from the column names to the values.                       *)
(* ------------------------------------------------------------------ *)

\* largest number of rows of an input frame of SpecEnhance
MaxRows == 2

EnhFrame(columns, index, rows) == [columns |-> columns, index |-> index, rows |-> rows]

\* col in frame.columns
HasColumn(frame, col) == \E c \in 1..Len(frame.columns) : frame.columns[c] = col

\* df.empty: no rows or no columns
IsEmptyFrame(frame) == frame.index = <<>> \/ frame.columns = <<>>

\* frame[col] = values, values given row by row: the column is overwritten,
\* or added after the last column
SetColumn(frame, col, values) ==
    EnhFrame(IF HasColumn(frame, col) THEN frame.columns ELSE Append(frame.columns, col),
             frame.index,
             [k \in 1..Len(frame.rows) |->
                [c \in (DOMAIN frame.rows[k]) \cup {col} |->
                    IF c = col THEN values[k] ELSE frame.rows[k][c]]])

\* frame[col] = value, a scalar: the same value in every row
SetColumnScalar(frame, col, value) ==
    SetColumn(frame, col, [k \in 1..Len(frame.rows) |-> value])

\* frame[cols]: a new frame with these columns, in this order, and the same rows
SelectColumns(frame, cols) ==
    EnhFrame(cols, frame.index,
             [k \in 1..Len(frame.rows) |->
                [c \in { cols[i] : i \in 1..Len(cols) } |-> frame.rows[k][c]]])

\* faulty variant: df.sort_values("topic").copy()
CopyFrameSorted(frame) ==
    LET first == { k \in 1..Len(frame.rows) : frame.rows[k].topic = "A" }
        Pos(k) == IF k \in first
                  THEN Cardinality({ j \in first : j < k }) + 1
                  ELSE Cardinality(first) + Cardinality({ j \in 1..k : j \notin first })
        At(p) == CHOOSE k \in 1..Len(frame.rows) : Pos(k) = p
    IN  EnhFrame(frame.columns,
                 [p \in 1..Len(frame.index) |-> frame.index[At(p)]],
                 [p \in 1..Len(frame.rows) |-> frame.rows[At(p)]])

\* df.copy(): the contents of the new frame
CopyFrame(frame) == frame

\* faulty variant: enhanced_df = df, the same object
AliasRef(ref) == ref

\* df.copy(): the new object
CopyRef(ref) == "copy"

\* an optional argument: not passed (None), or passed with this value
NotGiven == [given |-> FALSE, map |-> <<>>]

Given(m) == [given |-> TRUE, map |-> m]

(* ------------------------------------------------------------------ *)
(* enhance_quiz_dataframe: the assignments                             *)
(* ------------------------------------------------------------------ *)

\* the columns of the frame returned for an empty input
\* a faulty variant of cols: the columns of the parser only
ColsAsParsed == expected_cols

cols == <<"text", "options", "answerIndex", "topic", "tag", "chapter_no", "CHAPTER_TITLE",
          "difficulty", "time_estimate">>

final_cols == cols

DefaultDifficulty == "medium"

DefaultTimeEstimate == 60

\* lines 336-339: topic and tag are added, empty, when missing
EnsureCoreColumns(frame) ==
    LET f1 == IF HasColumn(frame, "topic") THEN frame ELSE SetColumnScalar(frame, "topic", "")
    IN  IF HasColumn(f1, "tag") THEN f1 ELSE SetColumnScalar(f1, "tag", "")

\* lines 341-344
SetChapter(frame, chNo, chTitle) ==
    LET f1 == IF chNo # None THEN SetColumnScalar(frame, "chapter_no", chNo) ELSE frame
    IN  IF chTitle # None THEN SetColumnScalar(f1, "CHAPTER_TITLE", chTitle) ELSE f1

\* faulty variant: tag_mapping.get(row["topic"], "")
MappedTagOrEmpty(mapping, row) ==
    IF row.topic \in DOMAIN mapping THEN mapping[row.topic] ELSE ""

\* get_mapped_tag_or_original: tag_mapping.get(row["topic"], row["tag"])
MappedTag(mapping, row) ==
    IF row.topic \in DOMAIN mapping THEN mapping[row.topic] ELSE row.tag

\* lines 346-354
ApplyTagMapping(frame, tm) ==
    IF tm.given /\ HasColumn(frame, "topic")
    THEN SetColumn(frame, "tag", [k \in 1..Len(frame.rows) |-> MappedTag(tm.map, frame.rows[k])])
    ELSE frame

\* enhanced_df.index.map(lambda i: levels.get(i, default)): by row label
IndexMap(index, levels, default) ==
    [k \in 1..Len(index) |->
        IF index[k] \in DOMAIN levels THEN levels[index[k]] ELSE default]

\* lines 356-370, for difficulty ("medium") and for time_estimate (60)
ApplyLevels(frame, col, arg, default) ==
    IF arg.given THEN SetColumn(frame, col, IndexMap(frame.index, arg.map, default))
    ELSE IF ~HasColumn(frame, col) THEN SetColumnScalar(frame, col, default)
    ELSE frame

\* lines 336-391: every assignment to enhanced_df, in order (the loop of
\* lines 384-391 finds difficulty and time_estimate already there)
Assignments(frame, tm, chNo, chTitle, dl, te) ==
    ApplyLevels(
        ApplyLevels(
            ApplyTagMapping(SetChapter(EnsureCoreColumns(frame), chNo, chTitle), tm),
            "difficulty", dl, DefaultDifficulty),
        "time_estimate", te, DefaultTimeEstimate)

\* present_cols: the names of final_cols that are columns of the frame
PresentCols(frame) == SelectSeq(final_cols, LAMBDA c : HasColumn(frame, c))

(* ------------------------------------------------------------------ *)
(* enhance_quiz_dataframe: the inputs of SpecEnhance                   *)
(* ------------------------------------------------------------------ *)

Texts == <<"Q1", "Q2", "Q3", "Q4">>

\* a row as the parser returns it
ParsedRow(k, topic, tag) ==
    [text |-> Texts[k], options |-> <<"C", "W1", "W2", "W3", "W4">>, answerIndex |-> 1,
     topic |-> topic, tag |-> tag, chapter_no |-> "", CHAPTER_TITLE |-> ""]

\* pd.RangeIndex(n)
RangeIndex(n) == [k \in 1..n |-> k - 1]

\* the frames the parser returns, with up to n rows
ParsedFrames(n) ==
    { EnhFrame(expected_cols, RangeIndex(Len(c)), [k \in 1..Len(c) |-> ParsedRow(k, c[k][1], c[k][2])]) :
        c \in UNION { [1..m -> {"A", "B"} \X {"Parsed Tag", ""}] : m \in 0..n } }

\* the input frames: the parser's frames; pd.DataFrame(); and, made from a
\* frame with both topics, with and without tags: a filtered frame, whose
\* labels do not start at 0 (df.iloc[1:]); a frame enhanced before; a frame
\* with a path column; a frame without the tag column
InputFrames ==
    LET Base(n) ==
            EnhFrame(expected_cols, RangeIndex(n),
                     [k \in 1..n |-> ParsedRow(k, IF k % 2 = 1 THEN "B" ELSE "A",
                                                 IF k % 2 = 1 THEN "Parsed Tag" ELSE "")])
        WithoutFirstRow(frame) ==
            EnhFrame(frame.columns, Tail(frame.index), Tail(frame.rows))
        WithoutColumn(frame, col) ==
            EnhFrame(SelectSeq(frame.columns, LAMBDA c : c # col), frame.index,
                     [k \in 1..Len(frame.rows) |->
                        [c \in (DOMAIN frame.rows[k]) \ {col} |-> frame.rows[k][c]]])
    IN  ParsedFrames(MaxRows)
        \cup { EnhFrame(<<>>, <<>>, <<>>),
               WithoutFirstRow(Base(MaxRows + 1)),
               SetColumnScalar(SetColumnScalar(Base(MaxRows), "difficulty", "hard"),
                               "time_estimate", 30),
               SetColumnScalar(Base(MaxRows), "path", "src/main.py"),
               WithoutColumn(Base(MaxRows), "tag") }

TagMappingArgs ==
    { NotGiven,
      Given(<<>>),
      Given([t \in {"A"} |-> "Mapped Tag A"]),
      Given([t \in {"A", "B"} |-> IF t = "A" THEN "Mapped Tag A" ELSE "Mapped Tag B"]) }

DifficultyArgs ==
    { NotGiven,
      Given([i \in {0} |-> "easy"]),
      Given([i \in {0, 1} |-> IF i = 0 THEN "easy" ELSE "hard"]) }

TimeArgs == { NotGiven, Given([i \in {0} |-> 30]) }

\* the objects of a call of enhance_quiz_dataframe: the argument, its copy,
\* the frame built for the return
Refs == { "df", "copy", "out" }

NoFrame == EnhFrame(<<>>, <<>>, <<>>)

(* ------------------------------------------------------------------ *)
(* State                                                               *)
(* ------------------------------------------------------------------ *)

VARIABLES
    xml_content,    \* the document passed to the call
    chapter_no,     \* the chapter_no argument (None when not passed)
    chapter_title,  \* the chapter_title argument (None when not passed)
    pc,             \* "parse", "items" (the for loop), "done" (returned)
    quiz_items,     \* the item nodes enumerated under the root
    main_topic,     \* the container's topic attribute
    item_index,     \* the number of items the loop has been through
    quiz_data,      \* the records appended so far
    skipped_count,  \* the skip counter
    output,         \* the lines printed so far
    df,             \* the value returned
    origin,         \* history: for each record of quiz_data, the position of its item
    outcomes,       \* history: for each item the loop body ran on, how it ended
    twin,           \* a second call, on a related document (SpecPair only)
    heap,           \* enhance_quiz_dataframe: the frame each object holds
    enhanced_df,    \* enhance_quiz_dataframe: the object enhanced_df is bound to
    returned,       \* enhance_quiz_dataframe: the object returned
    enhance_pc,     \* enhance_quiz_dataframe: "idle", "call", "done" (returned)
    tag_mapping,    \* the tag_mapping argument
    difficulty_levels,  \* the difficulty_levels argument
    time_estimates, \* the time_estimates argument
    df_before       \* history: the frame of the argument df when the call began

enhance_vars == <<heap, enhanced_df, returned, enhance_pc, tag_mapping,
                  difficulty_levels, time_estimates, df_before>>

parse_vars == <<xml_content, chapter_no, chapter_title, pc, quiz_items, main_topic,
                item_index, quiz_data, skipped_count, output, df, origin, outcomes, twin>>

vars == <<parse_vars, enhance_vars>>

\* no call of enhance_quiz_dataframe (Spec, SpecPair)
NoEnhance ==
    /\ heap = [r \in Refs |-> NoFrame]
    /\ enhanced_df = "df"
    /\ returned = "df"
    /\ enhance_pc = "idle"
    /\ tag_mapping = NotGiven
    /\ difficulty_levels = NotGiven
    /\ time_estimates = NotGiven
    /\ df_before = NoFrame

NoTwin == [active |-> FALSE]

InitCall ==
    /\ pc = "parse"
    /\ quiz_items = <<>>
    /\ main_topic = <<>>
    /\ item_index = 0
    /\ quiz_data = <<>>
    /\ skipped_count = 0
    /\ output = <<>>
    /\ df = EmptyFrame
    /\ origin = <<>>
    /\ outcomes = <<>>

Init ==
    /\ \E call \in Calls :
        /\ xml_content = call.doc
        /\ chapter_no = call.chapter_no
        /\ chapter_title = call.chapter_title
    /\ InitCall
    /\ twin = NoTwin
    /\ NoEnhance

\* the item the loop body runs on
CurrentItem == quiz_items[item_index + 1]

InLoop == pc = "items" /\ item_index < Len(quiz_items)

(* ------------------------------------------------------------------ *)
(* Actions                                                             *)
(* ------------------------------------------------------------------ *)

\* lines 23-59, the except branch: print, return pd.DataFrame()
ParseFatal ==
    /\ pc = "parse"
    /\ ParseIsFatal(CleanXml(xml_content))
    /\ output' = Append(output, Msg(0, "fatal", 0, <<>>))
    /\ df' = EmptyFrame
    /\ pc' = "done"
    /\ UNCHANGED <<xml_content, chapter_no, chapter_title, quiz_items, main_topic,
                   item_index, quiz_data, skipped_count, origin, outcomes, twin, enhance_vars>>

\* lines 23-71: the root is the container; enumerate the items, read the topic
ParseOk ==
    /\ pc = "parse"
    /\ ~ParseIsFatal(CleanXml(xml_content))
    /\ quiz_items' = FindQuizItems(CleanXml(xml_content).bank)
    /\ main_topic' = GetMainTopic(CleanXml(xml_content).bank)
    /\ quiz_data' = <<>>
    /\ skipped_count' = 0
    /\ item_index' = 0
    /\ pc' = "items"
    /\ UNCHANGED <<xml_content, chapter_no, chapter_title, output, df, origin, outcomes, twin, enhance_vars>>

\* the three rejections of the loop body and the except clause: print, count, continue
Skip(kind, n, snippet) ==
    /\ output' = Append(output, Msg(item_index + 1, kind, n, snippet))
    /\ skipped_count' = SkipCounted(skipped_count)
    /\ item_index' = ContinueLoop(item_index, Len(quiz_items))
    /\ outcomes' = Append(outcomes, kind)
    /\ UNCHANGED <<xml_content, chapter_no, chapter_title, pc, quiz_items, main_topic,
                   quiz_data, df, origin, twin, enhance_vars>>

\* a faulty variant of SkipNoQuestion: the options are counted before the
\* question is looked up
SkipNoQuestionAfterOptions ==
    /\ InLoop
    /\ Classify(CurrentItem) = "no_question"
    /\ IF OptionCountWrong(CurrentItem)
       THEN Skip("option_count", Len(AllOptionTags(CurrentItem)), <<>>)
       ELSE Skip("no_question", item_index, <<>>)

\* lines 77-83
SkipNoQuestion ==
    /\ InLoop
    /\ Classify(CurrentItem) = "no_question"
    /\ Skip("no_question", item_index, <<>>)

\* lines 115-129
SkipOptionCount ==
    /\ InLoop
    /\ Classify(CurrentItem) = "option_count"
    /\ Skip("option_count", Len(AllOptionTags(CurrentItem)),
            Snippet(InnerContent(QuestionElement(CurrentItem))))

\* lines 131-152
SkipOptionNumbers ==
    /\ InLoop
    /\ Classify(CurrentItem) = "option_numbers"
    /\ Skip("option_numbers", Len(AllOptionTags(CurrentItem)),
            Snippet(InnerContent(QuestionElement(CurrentItem))))

\* lines 155-247: extract the options, the topic and the tag and append the
\* record; an IndexError of the option lookup ends in the except clause
ExtractItem ==
    /\ InLoop
    /\ Classify(CurrentItem) \in {"accept", "exception"}
    /\ IF Classify(CurrentItem) = "exception"
       THEN Skip("exception", 0, Snippet(InnerContent(QuestionElement(CurrentItem))))
       ELSE /\ quiz_data' = AppendRecord(quiz_data,
                   BuildRecord(CurrentItem, main_topic, chapter_no, chapter_title))
            /\ origin' = AppendRecord(origin, item_index + 1)
            /\ output' = output \o CorrectWarnings(CurrentItem, item_index + 1, 1)
            /\ item_index' = item_index + 1
            /\ outcomes' = Append(outcomes, "accept")
            /\ UNCHANGED <<xml_content, chapter_no, chapter_title, pc, quiz_items,
                           main_topic, skipped_count, df, twin, enhance_vars>>

\* the lines printed after the loop (lines 252-262)
SummaryLines(items, empty, accepted, skipped) ==
    (IF items = <<>> /\ ~empty THEN <<Msg(0, "no_items", 0, <<>>)>>
     ELSE IF empty THEN <<Msg(0, "empty_input", 0, <<>>)>>
     ELSE <<>>)
    \o <<Msg(0, "parsed", accepted, <<>>), Msg(0, "skipped", skipped, <<>>)>>

\* lines 249-290: the loop is over; build the frame, print the totals, return
Summary ==
    /\ pc = "items"
    /\ item_index >= Len(quiz_items)
    /\ df' = FrameOf(quiz_data)
    /\ output' = output \o SummaryLines(quiz_items, xml_content.empty,
                                        Len(quiz_data), skipped_count)
    /\ pc' = "done"
    /\ UNCHANGED <<xml_content, chapter_no, chapter_title, quiz_items, main_topic,
                   item_index, quiz_data, skipped_count, origin, outcomes, twin, enhance_vars>>

Next ==
    \/ ParseFatal
    \/ ParseOk
    \/ SkipNoQuestion
    \/ SkipOptionCount
    \/ SkipOptionNumbers
    \/ ExtractItem
    \/ Summary

Spec == Init /\ [][Next]_vars

(* ------------------------------------------------------------------ *)
(* The loop body when a statement of it raises                         *)
(* ------------------------------------------------------------------ *)

\* line 73: question_snippet before the question is extracted
DefaultSnippet ==
    <<"[","Q","u","e","s","t","i","o","n"," ","i","d","e","n","t","i","f","i","c","a","t","i",
      "o","n"," ","f","a","i","l","e","d","]">>

\* lines 241-247: a statement of the try block raises an Exception. No input
\* makes the statements of lines 76-239 raise, so the failure is an event of
\* the environment (the library, the output stream) that can strike the body
\* before line 110 (early) or after it; after it, the item being accepted,
\* some of the warnings of lines 197-208 can have been printed. The record
\* is appended by the last statement of the block, so none is appended.
ItemRaises ==
    /\ InLoop
    /\ \E early \in BOOLEAN :
        /\ ~early => HasQuestion(CurrentItem)
        /\ LET question_snippet ==
                   IF early THEN DefaultSnippet
                   ELSE Snippet(InnerContent(QuestionElement(CurrentItem)))
               printed ==
                   IF ~early /\ Classify(CurrentItem) = "accept"
                   THEN CorrectWarnings(CurrentItem, item_index + 1, 1)
                   ELSE <<>>
           IN  \E n \in 0..Len(printed) :
                   output' = output \o SubSeq(printed, 1, n)
                               \o <<Msg(item_index + 1, "exception", 0, question_snippet)>>
    /\ skipped_count' = SkipCounted(skipped_count)
    /\ item_index' = ContinueLoop(item_index, Len(quiz_items))
    /\ outcomes' = Append(outcomes, "exception")
    /\ UNCHANGED <<xml_content, chapter_no, chapter_title, pc, quiz_items, main_topic,
                   quiz_data, df, origin, twin, enhance_vars>>

NextFailing ==
    \/ Next
    \/ ItemRaises

\* the calls of SpecFailing: the calls of Spec on a plain container without
\* chapter arguments, and the empty text
InitFailing ==
    /\ \E call \in { c \in Calls : /\ c.chapter_no = None
                                   /\ c.doc.wrapper = <<>>
                                   /\ c.doc.empty \/ c.doc.bank.tag = QUIZ_BANK
                                   /\ c.doc.empty \/ c.doc.bank.topic = MainTopic } :
        /\ xml_content = call.doc
        /\ chapter_no = call.chapter_no
        /\ chapter_title = call.chapter_title
    /\ InitCall
    /\ twin = NoTwin
    /\ NoEnhance

SpecFailing == InitFailing /\ [][NextFailing]_vars

(* ------------------------------------------------------------------ *)
(* Two calls on related documents                                      *)
(*                                                                     *)
(* SpecPair runs the call on a document and then, with the same        *)
(* chapter arguments, on a second document that differs from the first *)
(* in one item, or in the letter case of its container and item names, *)
(* or in the letter case of its option names. The second call is the   *)
(* same code: the same operators, applied to the fields of twin.       *)
(* ------------------------------------------------------------------ *)

\* an option field: a name that is OPTION followed by digits, in any letter case
IsOptionFieldName(name) ==
    /\ Len(name) > Len(OPTION)
    /\ UpperStr(SubSeq(name, 1, Len(OPTION))) = OPTION
    /\ \A i \in (Len(OPTION) + 1)..Len(name) : IsDigit(name[i])

\* the items of the documents of SpecPair that differ in one item
PairPool ==
    { StdItem,
      MkItem(StdQuestion, Opts(OPTION, <<1, 2, 3, 4>>), StdTopic, StdTag),
      MkItem(<<>>, FiveUpper, StdTopic, StdTag),
      MkItem(StdQuestion, Opts(OPTION, <<1, 2, 2, 4, 5>>), StdTopic, StdTag),
      MkItem(StdQuestion, FiveUpper, <<>>, <<>>) }

\* the items of the documents of SpecPair whose container and item names vary
CasePool ==
    { StdItem,
      Item(LowerStr(QUIZ_ITEM), StdItem.children),
      MkItem(StdQuestion, Opts(OPTION, <<1, 2, 3, 4>>), <<>>, StdTag) }

\* the items of the documents of SpecPair whose option names vary
OptionCasePool ==
    { StdItem,
      MkItem(StdQuestion, Opts(option_lower, <<1, 2, 3, 4, 5>>), StdTopic, StdTag),
      MkItem(StdQuestion, Opts(OptionPrefixMixed, <<1, 2, 3, 4, 5>>), StdTopic, StdTag),
      MkItem(StdQuestion,
             Opts(option_lower, <<1, 2>>) \o Opts(OPTION, <<3>>) \o Opts(option_lower, <<4, 5>>),
             StdTopic, StdTag),
      MkItem(StdQuestion,
             [k \in 1..5 |-> OptionElem(option_lower, k, k,
                                IF k = 1 THEN <<"T","r","u","e">> ELSE <<"F","a","l","s","e">>)],
             StdTopic, StdTag),
      MkItem(StdQuestion, Opts(option_lower, <<1, 2, 3, 4>>), StdTopic, StdTag) }

\* the document with item k replaced
WithItem(doc, k, item) == [doc EXCEPT !.bank.items[k] = item]

\* the document with its container and item names in upper case
UpperNames(doc) ==
    [doc EXCEPT !.bank.tag = UpperStr(@),
                !.bank.items = [j \in 1..Len(@) |-> [@[j] EXCEPT !.tag = UpperStr(@)]]]

\* the item with the names of its option fields in upper case
UpperOptionNames(item) ==
    [item EXCEPT !.children =
        [k \in 1..Len(@) |-> IF IsOptionFieldName(@[k].tag)
                             THEN [@[k] EXCEPT !.tag = UpperStr(@)] ELSE @[k]]]

\* the document with the names of all its option fields in upper case
UpperOptions(doc) ==
    [doc EXCEPT !.bank.items = [j \in 1..Len(@) |-> UpperOptionNames(@[j])]]

PairCall(doc, relation, at, other) ==
    [doc |-> doc, relation |-> relation, changed_at |-> at, other |-> other]

PairCalls ==
    { PairCall(Doc(FALSE, <<>>, QUIZ_BANK, MainTopic, c[1]), "item_changed", c[2],
               WithItem(Doc(FALSE, <<>>, QUIZ_BANK, MainTopic, c[1]), c[2], c[3])) :
        c \in { x \in [1..MaxPairItems -> PairPool] \X (1..MaxPairItems) \X PairPool :
                  x[1][x[2]] # x[3] } }
    \cup { PairCall(Doc(FALSE, c[1], c[2], MainTopic, c[3]), "names_recased", 0,
                    UpperNames(Doc(FALSE, c[1], c[2], MainTopic, c[3]))) :
        c \in Wrappers \X { QUIZ_BANK, LowerStr(QUIZ_BANK) } \X [1..MaxPairItems -> CasePool] }
    \cup { PairCall(Doc(FALSE, <<>>, QUIZ_BANK, MainTopic, s), "options_recased", 0,
                    UpperOptions(Doc(FALSE, <<>>, QUIZ_BANK, MainTopic, s))) :
        s \in [1..MaxPairItems -> OptionCasePool] }
    \cup { PairCall([Doc(FALSE, <<>>, c[1], MainTopic, c[3])
                        EXCEPT !.before = c[2][1], !.after = c[2][2]],
                    "prose_added", 0, Doc(FALSE, <<>>, c[1], MainTopic, c[3])) :
        c \in { QUIZ_BANK, LowerStr(QUIZ_BANK) }
              \X { << <<"s","e","e"," ">>, <<>> >>,
                   << <<>>, <<" ","e","n","d","\n">> >>,
                   << <<"s","e","e"," ">>, <<" ","e","n","d","\n">> >>,
                   << <<"\n">>, <<"\n">> >> }
              \X [1..MaxPairItems -> CasePool] }

InitPair ==
    /\ \E call \in PairCalls :
        /\ xml_content = call.doc
        /\ twin = [active |-> TRUE, relation |-> call.relation,
                   changed_at |-> call.changed_at, xml_content |-> call.other,
                   pc |-> "parse", quiz_items |-> <<>>, main_topic |-> <<>>,
                   item_index |-> 0, quiz_data |-> <<>>, skipped_count |-> 0,
                   origin |-> <<>>, outcomes |-> <<>>, df |-> EmptyFrame]
    /\ chapter_no = None
    /\ chapter_title = None
    /\ InitCall
    /\ NoEnhance

TwinTurn == pc = "done" /\ twin.active

MainUnchanged ==
    UNCHANGED <<xml_content, chapter_no, chapter_title, pc, quiz_items, main_topic,
                item_index, quiz_data, skipped_count, output, df, origin, outcomes,
                enhance_vars>>

\* lines 23-71 of the second call
TwinParse ==
    /\ TwinTurn
    /\ twin.pc = "parse"
    /\ twin' = IF ParseIsFatal(CleanXml(twin.xml_content))
               THEN [twin EXCEPT !.pc = "done", !.df = EmptyFrame]
               ELSE [twin EXCEPT !.pc = "items",
                        !.quiz_items = FindQuizItems(CleanXml(twin.xml_content).bank),
                        !.main_topic = GetMainTopic(CleanXml(twin.xml_content).bank)]
    /\ MainUnchanged

\* lines 73-247 of the second call: the loop body on one item
TwinItem ==
    /\ TwinTurn
    /\ twin.pc = "items"
    /\ twin.item_index < Len(twin.quiz_items)
    /\ LET item == twin.quiz_items[twin.item_index + 1]
       IN  twin' = IF Classify(item) = "accept"
                   THEN [twin EXCEPT
                            !.quiz_data = AppendRecord(@,
                                BuildRecord(item, twin.main_topic, chapter_no, chapter_title)),
                            !.origin = AppendRecord(@, twin.item_index + 1),
                            !.item_index = @ + 1,
                            !.outcomes = Append(@, "accept")]
                   ELSE [twin EXCEPT
                            !.skipped_count = SkipCounted(@),
                            !.item_index = ContinueLoop(@, Len(twin.quiz_items)),
                            !.outcomes = Append(@, Classify(item))]
    /\ MainUnchanged

\* lines 249-290 of the second call
TwinSummary ==
    /\ TwinTurn
    /\ twin.pc = "items"
    /\ twin.item_index >= Len(twin.quiz_items)
    /\ twin' = [twin EXCEPT !.pc = "done", !.df = FrameOf(twin.quiz_data)]
    /\ MainUnchanged

NextPair ==
    \/ Next
    \/ TwinParse
    \/ TwinItem
    \/ TwinSummary

SpecPair == InitPair /\ [][NextPair]_vars

(* ------------------------------------------------------------------ *)
(* Calls of enhance_quiz_dataframe                                     *)
(*                                                                     *)
(* SpecEnhance is one call on an input frame with some combination of  *)
(* the optional arguments. The frames are objects: heap maps each      *)
(* object to the frame it holds, so that an assignment through         *)
(* enhanced_df changes the object enhanced_df is bound to, whichever   *)
(* it is.                                                              *)
(* ------------------------------------------------------------------ *)

InitEnhance ==
    /\ xml_content = EmptyDoc
    /\ InitCall
    /\ twin = NoTwin
    /\ \E frame \in InputFrames :
        /\ heap = [r \in Refs |-> IF r = "df" THEN frame ELSE NoFrame]
        /\ df_before = frame
    /\ \E args \in { <<None, None>>, <<"3", "Enhancement Test">> } :
        /\ chapter_no = args[1]
        /\ chapter_title = args[2]
    /\ tag_mapping \in TagMappingArgs
    /\ difficulty_levels \in DifficultyArgs
    /\ time_estimates \in TimeArgs
    /\ enhanced_df = "df"
    /\ returned = "df"
    /\ enhance_pc = "call"

\* lines 318-332: the input is empty; print, return pd.DataFrame(columns=cols)
EnhanceEmpty ==
    /\ enhance_pc = "call"
    /\ IsEmptyFrame(heap["df"])
    /\ output' = Append(output, Msg(0, "cannot_enhance", 0, <<>>))
    /\ heap' = [heap EXCEPT !["out"] = EnhFrame(cols, <<>>, <<>>)]
    /\ returned' = "out"
    /\ enhance_pc' = "done"
    /\ UNCHANGED <<xml_content, chapter_no, chapter_title, pc, quiz_items, main_topic,
                   item_index, quiz_data, skipped_count, df, origin, outcomes, twin,
                   enhanced_df, tag_mapping, difficulty_levels, time_estimates, df_before>>

\* lines 334-399: copy, assign the columns, select the final columns, return
EnhanceRows ==
    /\ enhance_pc = "call"
    /\ ~IsEmptyFrame(heap["df"])
    /\ LET ref == CopyRef("df")
           copied == [heap EXCEPT !["copy"] = CopyFrame(heap["df"])]
           assigned == [copied EXCEPT ![ref] =
                           Assignments(@, tag_mapping, chapter_no, chapter_title,
                                       difficulty_levels, time_estimates)]
       IN  heap' = [assigned EXCEPT !["out"] =
                       SelectColumns(assigned[ref], PresentCols(assigned[ref]))]
    /\ enhanced_df' = "out"
    /\ returned' = "out"
    /\ enhance_pc' = "done"
    /\ UNCHANGED <<parse_vars, tag_mapping, difficulty_levels, time_estimates, df_before>>

NextEnhance ==
    \/ EnhanceEmpty
    \/ EnhanceRows

SpecEnhance == InitEnhance /\ [][NextEnhance]_vars

(* ------------------------------------------------------------------ *)
(* Vocabulary of the properties                                        *)
(* ------------------------------------------------------------------ *)

\* the call returned without the fatal parse error
Fatal == \E k \in 1..Len(output) : output[k].kind = "fatal"

Returned == pc = "done" /\ ~Fatal

OptionFields(item) == SelectSeq(item.children, LAMBDA c : IsOptionFieldName(c.tag))

\* the ordinal suffixes of the option fields, in document order
Ordinals(item) ==
    [k \in 1..Len(OptionFields(item)) |-> TrailingNumber(OptionFields(item)[k].tag)]

\* the ordinals are 1, 2, 3, 4, 5, each once
OrdinalsExactlyOneToFive(item) ==
    /\ Len(Ordinals(item)) = 5
    /\ { Ordinals(item)[k] : k \in 1..Len(Ordinals(item)) } = 1..5

\* the positions of the items the loop has accepted, in increasing order
RECURSIVE AcceptedPositions(_, _)
AcceptedPositions(outs, j) ==
    IF j > Len(outs) THEN <<>>
    ELSE (IF outs[j] = "accept" THEN <<j>> ELSE <<>>) \o AcceptedPositions(outs, j + 1)

\* the lines printed while the loop body ran on item j
LinesAt(j, kind) == { k \in 1..Len(output) : output[k].at = j /\ output[k].kind = kind }

HasTopicField(item) == \E k \in 1..Len(item.children) : UpperStr(item.children[k].tag) = TOPIC

HasTagField(item) == \E k \in 1..Len(item.children) : UpperStr(item.children[k].tag) = TAG

(* ------------------------------------------------------------------ *)
(* Properties of Spec                                                  *)
(* ------------------------------------------------------------------ *)

\* C1: every record of the parser, accumulated or returned, has exactly
\* five options and answerIndex 1.
C1_FiveOptionsAnswerOne ==
    /\ \A k \in 1..Len(quiz_data) :
        Len(quiz_data[k].options) = 5 /\ quiz_data[k].answerIndex = 1
    /\ \A k \in 1..Len(df.rows) :
        Len(df.rows[k].options) = 5 /\ df.rows[k].answerIndex = 1

C1_Witness == pc = "done" /\ Len(df.rows) = 3

\* C2: every item the loop ran on whose number of option fields is not 5
\* was rejected (no record, one more skip) and a line stating that number
\* of option fields was printed for it. Stated for the items that have a
\* QUESTION child, the ones whose options the loop body looks at.
C2_WrongCountRejectedWithCount ==
    \A j \in 1..Len(outcomes) :
        (HasQuestion(quiz_items[j]) /\ Len(OptionFields(quiz_items[j])) # 5) =>
            /\ outcomes[j] # "accept"
            /\ \E k \in LinesAt(j, "option_count") :
                   output[k].n = Len(OptionFields(quiz_items[j]))

\* C3: every item the loop ran on that has exactly five option fields whose
\* ordinals are not 1..5, each once, was rejected.
C3_WrongOrdinalsRejected ==
    \A j \in 1..Len(outcomes) :
        (Len(OptionFields(quiz_items[j])) = 5 /\ ~OrdinalsExactlyOneToFive(quiz_items[j]))
            => outcomes[j] # "accept"

C3_Witness ==
    \E j \in 1..Len(outcomes) :
        /\ Len(OptionFields(quiz_items[j])) = 5
        /\ ~OrdinalsExactlyOneToFive(quiz_items[j])
        /\ HasQuestion(quiz_items[j])
        /\ outcomes[j] = "option_numbers"
        /\ skipped_count >= 1

\* C4: every record comes from an item with exactly five option fields
\* (names matched in any letter case) whose ordinals are 1..5, each once.
C4_AcceptedHaveExactlyFiveFields ==
    \A k \in 1..Len(origin) :
        /\ Len(OptionFields(quiz_items[origin[k]])) = 5
        /\ OrdinalsExactlyOneToFive(quiz_items[origin[k]])

\* C6: the records are the accepted items in document order: record k is
\* the record of the k-th accepted item, and the frame returned holds them
\* in that order.
C6_RecordsInDocumentOrder ==
    /\ origin = AcceptedPositions(outcomes, 1)
    /\ Len(quiz_data) = Len(origin)
    /\ \A k \in 1..Len(quiz_data) :
        quiz_data[k] = BuildRecord(quiz_items[AcceptedPositions(outcomes, 1)[k]],
                                   main_topic, chapter_no, chapter_title)
    /\ Returned => df.rows = quiz_data

C6_Witness ==
    /\ Returned
    /\ outcomes = <<"accept", "option_count", "accept">>
    /\ Len(df.rows) = 2
    /\ df.rows[1] # df.rows[2]

\* C7: every item the loop ran on gave one complete record or one skip,
\* never both and never neither, so records + skips = items enumerated
\* when the call returns, and the totals printed are these counts.
C7_OneOutcomePerItem ==
    /\ Len(quiz_data) + skipped_count = Len(outcomes)
    /\ Len(quiz_data) = Len(AcceptedPositions(outcomes, 1))
    /\ \A k \in 1..Len(quiz_data) :
        DOMAIN quiz_data[k] = { expected_cols[c] : c \in 1..Len(expected_cols) }
    /\ Returned =>
        /\ Len(df.rows) + skipped_count = Len(quiz_items)
        /\ \E k \in 1..Len(output) :
            output[k].kind = "skipped" /\ output[k].n = Len(quiz_items) - Len(df.rows)
        /\ \E k \in 1..Len(output) :
            output[k].kind = "parsed" /\ output[k].n = Len(df.rows)

C7_Witness ==
    /\ Returned
    /\ outcomes = <<"accept", "option_count", "accept">>
    /\ ~HasTopicField(quiz_items[3])
    /\ Len(df.rows) = 2
    /\ skipped_count = 1

\* C10: every record of an item without a TOPIC field has the container's
\* topic attribute as its topic, the empty string when the container has
\* no topic attribute.
C10_MissingTopicFallsBack ==
    \A k \in 1..Len(origin) :
        ~HasTopicField(quiz_items[origin[k]]) =>
            quiz_data[k].topic = xml_content.bank.topic

(* ------------------------------------------------------------------ *)
(* Properties of SpecPair                                              *)
(* ------------------------------------------------------------------ *)

BothReturned == pc = "done" /\ twin.active /\ twin.pc = "done"

\* how the loop body ended on item j ("none" when it never ran on it)
OutcomeAt(outs, j) == IF j \in 1..Len(outs) THEN outs[j] ELSE "none"

\* the record made from item j, as a sequence (empty when there is none)
RecordAt(org, data, j) ==
    IF \E k \in 1..Len(org) : org[k] = j
    THEN <<data[CHOOSE k \in 1..Len(org) : org[k] = j]>>
    ELSE <<>>

\* C5: two documents with the same container topic that differ in one item
\* give the same outcome and the same record for every other item.
C5_SiblingsIndependent ==
    (BothReturned /\ twin.relation = "item_changed") =>
        \A j \in 1..Len(xml_content.bank.items) :
            j # twin.changed_at =>
                /\ OutcomeAt(outcomes, j) = OutcomeAt(twin.outcomes, j)
                /\ RecordAt(origin, df.rows, j) = RecordAt(twin.origin, twin.df.rows, j)

C5_Witness ==
    /\ BothReturned
    /\ twin.relation = "item_changed"
    /\ twin.changed_at = 1
    /\ OutcomeAt(outcomes, 1) = "accept"
    /\ OutcomeAt(twin.outcomes, 1) = "option_count"
    /\ OutcomeAt(outcomes, 2) = "accept"
    /\ RecordAt(twin.origin, twin.df.rows, 2) = RecordAt(origin, df.rows, 2)
    /\ RecordAt(origin, df.rows, 2) # <<>>

\* C8: an item accepted when its option names are in upper case is
\* accepted, with the same options, under the other letter cases of these
\* names and of the values of the correct attribute.
C8_OptionNameCaseIrrelevant ==
    (BothReturned /\ twin.relation = "options_recased") =>
        \A j \in 1..Len(xml_content.bank.items) :
            OutcomeAt(twin.outcomes, j) = "accept" =>
                /\ OutcomeAt(outcomes, j) = "accept"
                /\ RecordAt(origin, df.rows, j)[1].options
                       = RecordAt(twin.origin, twin.df.rows, j)[1].options

\* C9: a document enumerates the same items and returns the same records
\* as the same document with its container and item names in upper case,
\* with or without a wrapper around the container.
C9_ContainerItemCaseIrrelevant ==
    (BothReturned /\ twin.relation = "names_recased") =>
        /\ Len(quiz_items) = Len(twin.quiz_items)
        /\ df.rows = twin.df.rows

(* ------------------------------------------------------------------ *)
(* Properties of Spec: defaults, schema and diagnostics                *)
(* ------------------------------------------------------------------ *)

\* C11: every record of an item without a TAG field has the empty string
\* as its tag, and the frame returned after the loop has the tag column.
C11_MissingTagIsEmpty ==
    /\ \A k \in 1..Len(origin) :
        ~HasTagField(quiz_items[origin[k]]) => quiz_data[k].tag = <<>>
    /\ Returned => \E c \in 1..Len(df.columns) : df.columns[c] = "tag"

HasLine(kind) == \E k \in 1..Len(output) : output[k].kind = kind

\* C12: whenever the call has returned, after a fatal parse error too, the
\* frame returned has the seven columns of the schema, with or without rows.
C12_SchemaOnEveryReturn ==
    pc = "done" => df.columns = expected_cols

\* C13: whenever the call has returned, on every path, the line with the
\* number of records and the line with the number of skips were printed.
C13_TotalsOnEveryReturn ==
    pc = "done" =>
        /\ \E k \in 1..Len(output) :
            output[k].kind = "parsed" /\ output[k].n = Len(df.rows)
        /\ \E k \in 1..Len(output) :
            output[k].kind = "skipped" /\ output[k].n = skipped_count

\* C14: after the call on the empty text there are no records and the
\* "Input XML content was empty" line was printed, not the "No <QUIZ_ITEM>
\* elements found" line; after the call on a container without items there
\* are no records, no skips, and the "No <QUIZ_ITEM> elements found" line
\* was printed, not the other one.
C14_EmptyAndNoItemsDistinguished ==
    pc = "done" =>
        /\ xml_content.empty =>
            /\ df.rows = <<>>
            /\ HasLine("empty_input")
            /\ ~HasLine("no_items")
        /\ (~xml_content.empty /\ ~Fatal /\ xml_content.bank.items = <<>>) =>
            /\ df.rows = <<>>
            /\ skipped_count = 0
            /\ HasLine("no_items")
            /\ ~HasLine("empty_input")

\* the option fields of the item whose ordinal is n
FieldsWithOrdinal(item, n) ==
    SelectSeq(OptionFields(item), LAMBDA c : TrailingNumber(c.tag) = n)

\* the value the correct attribute of an option field with ordinal n should have
ExpectedCorrect(n) == IF n = 1 THEN TRUE_STR ELSE FALSE_STR

\* the element that option n of the record is read from has another value,
\* in any letter case, or none
AttributeMismatch(item, n) ==
    LowerStr(OptionElement(item, n).correct) # ExpectedCorrect(n)

\* the item with the expected value in every correct attribute of its option fields
WithExpectedCorrect(item) ==
    Item(item.tag,
         [k \in 1..Len(item.children) |->
            LET c == item.children[k]
            IN  IF IsOptionFieldName(c.tag)
                THEN [c EXCEPT !.correct = ExpectedCorrect(TrailingNumber(c.tag))]
                ELSE c])

C16_ContentPreserved ==
    \A k \in 1..Len(origin) :
        LET item == quiz_items[origin[k]]
        IN  /\ quiz_data[k].text = Strip(QuestionElement(item).text)
            /\ \A n \in 1..5 :
                quiz_data[k].options[n] = Strip(OptionElement(item, n).text)

\* C17: in every record, option n is the content of the item's option
\* field with ordinal n when there is one such field, and the content of
\* no option field with an ordinal outside 1..5 is among the options.
C17_OptionsByOrdinal ==
    \A k \in 1..Len(origin) :
        LET item == quiz_items[origin[k]]
        IN  /\ \A n \in 1..5 :
                Len(FieldsWithOrdinal(item, n)) = 1 =>
                    quiz_data[k].options[n] = InnerContent(FieldsWithOrdinal(item, n)[1])
            /\ \A c \in 1..Len(OptionFields(item)) :
                TrailingNumber(OptionFields(item)[c].tag) \notin 1..5 =>
                    \A n \in 1..5 :
                        quiz_data[k].options[n] # InnerContent(OptionFields(item)[c])

(* ------------------------------------------------------------------ *)
(* Properties of SpecEnhance                                           *)
(* ------------------------------------------------------------------ *)

EnhanceDone == enhance_pc = "done"

\* the frame returned
Result == heap[returned]

\* the tag of row k of the input ("" when the input has no tag column)
TagBefore(k) == IF HasColumn(df_before, "tag") THEN df_before.rows[k].tag ELSE ""

\* C18: after a call with a tag_mapping, every row whose topic has an entry
\* in the mapping has that entry as its tag, and every other row has the
\* tag it had in the input.
C18_TagMappingKeepsUnmapped ==
    (EnhanceDone /\ tag_mapping.given /\ ~IsEmptyFrame(df_before)) =>
        /\ Len(Result.rows) = Len(df_before.rows)
        /\ \A k \in 1..Len(df_before.rows) :
            Result.rows[k].tag =
                IF df_before.rows[k].topic \in DOMAIN tag_mapping.map
                THEN tag_mapping.map[df_before.rows[k].topic]
                ELSE TagBefore(k)

C18_Witness ==
    /\ EnhanceDone
    /\ tag_mapping.given
    /\ Len(Result.rows) = 2
    /\ df_before.rows[1].topic \in DOMAIN tag_mapping.map
    /\ df_before.rows[2].topic \notin DOMAIN tag_mapping.map
    /\ df_before.rows[1].tag = "Parsed Tag"
    /\ df_before.rows[2].tag = "Parsed Tag"
    /\ Result.rows[1].tag = "Mapped Tag A"
    /\ Result.rows[2].tag = "Parsed Tag"

\* C19: the frame returned has as many rows as the input, and row k of it
\* has the text, options, answerIndex and topic of row k of the input.
C19_SameRowsSameOrder ==
    EnhanceDone =>
        /\ Len(Result.rows) = Len(df_before.rows)
        /\ \A k \in 1..Len(df_before.rows) :
            \A c \in {"text", "options", "answerIndex", "topic"} :
                Result.rows[k][c] = df_before.rows[k][c]

C19_Witness ==
    /\ EnhanceDone
    /\ Len(Result.rows) = 2
    /\ Result.rows[1].topic = "B"
    /\ Result.rows[2].topic = "A"
    /\ Result.rows[1].text = "Q1"
    /\ Result.rows[2].text = "Q2"
    /\ tag_mapping.given
    /\ difficulty_levels.given
    /\ time_estimates.given
    /\ chapter_no # None

\* C20: at every point of a call the object passed as df holds the frame it
\* held when the call began; the overrides are in the frame returned only.
C20_InputNotMutated ==
    heap["df"] = df_before

C20_Witness ==
    /\ EnhanceDone
    /\ returned # "df"
    /\ Len(Result.rows) = 2
    /\ HasColumn(df_before, "tag")
    /\ Result.rows[1].tag # df_before.rows[1].tag
    /\ Result.rows[1].chapter_no # df_before.rows[1].chapter_no
    /\ HasColumn(Result, "difficulty")
    /\ ~HasColumn(heap["df"], "difficulty")
    /\ heap["df"] = df_before

\* the row labels of the input are its positions 0, 1, ...
LabelsArePositions == df_before.index = RangeIndex(Len(df_before.index))

\* the value column col of row k should have after the call: the entry of
\* the map for position k - 1, else the value the row had, else the default
ExpectedLevel(k, col, arg, default) ==
    IF arg.given /\ (k - 1) \in DOMAIN arg.map THEN arg.map[k - 1]
    ELSE IF HasColumn(df_before, col) THEN df_before.rows[k][col]
    ELSE default

\* C21: after a call, every row has as its difficulty (time_estimate) the
\* entry of difficulty_levels (time_estimates) for its position when there
\* is one, else the value it had in the input, else "medium" (60). Stated
\* for the inputs whose row labels are their positions.
C21_LevelsKeepExisting ==
    (EnhanceDone /\ ~IsEmptyFrame(df_before) /\ LabelsArePositions) =>
        \A k \in 1..Len(df_before.rows) :
            /\ Result.rows[k].difficulty =
                   ExpectedLevel(k, "difficulty", difficulty_levels, "medium")
            /\ Result.rows[k].time_estimate =
                   ExpectedLevel(k, "time_estimate", time_estimates, 60)

\* C22: after a call, every column of the input is a column of the frame
\* returned, and every column other than tag, chapter_no, CHAPTER_TITLE,
\* difficulty and time_estimate has in every row the value it had.
C22_OnlyAddsOrOverwrites ==
    EnhanceDone =>
        \A c \in 1..Len(df_before.columns) :
            /\ HasColumn(Result, df_before.columns[c])
            /\ df_before.columns[c] \notin
                    {"tag", "chapter_no", "CHAPTER_TITLE", "difficulty", "time_estimate"} =>
                \A k \in 1..Len(df_before.rows) :
                    Result.rows[k][df_before.columns[c]] = df_before.rows[k][df_before.columns[c]]

\* C23: a call whose input has no rows, with or without columns, returns a
\* frame of no rows whose columns are the seven columns of a record followed
\* by difficulty and time_estimate.
C23_EmptyInputGivesSchema ==
    (EnhanceDone /\ df_before.index = <<>>) =>
        /\ Result.columns = expected_cols \o <<"difficulty", "time_estimate">>
        /\ Result.index = <<>>
        /\ Result.rows = <<>>

C23_Witness ==
    /\ EnhanceDone
    /\ df_before = EnhFrame(<<>>, <<>>, <<>>)
    /\ Len(Result.columns) = 9

\* C24: the loop body run on an item without a direct child named QUESTION,
\* whatever its options are, appends no record, adds one to the skip count,
\* prints exactly one line, the rejection for the missing question, which
\* carries the index of the item in the enumeration, and goes on to the next
\* item.
C24_NoQuestionRejected ==
    [][(InLoop /\ ~HasQuestion(CurrentItem)) =>
          /\ quiz_data' = quiz_data
          /\ skipped_count' = skipped_count + 1
          /\ output' = Append(output, Msg(item_index + 1, "no_question", item_index, <<>>))
          /\ item_index' = item_index + 1
          /\ pc' = pc]_vars

C24_Witness ==
    \E j \in 1..Len(outcomes) :
        /\ outcomes[j] = "no_question"
        /\ OptionCountWrong(quiz_items[j])
        /\ \E k \in (j + 1)..Len(outcomes) : outcomes[k] = "accept"

\* C25: when a statement of the loop body raises, no record is appended or
\* changed, the skip count grows by one, the lines printed so far are kept
\* and the last line printed is the one of the except clause, whose snippet
\* is the placeholder or the first 70 characters of the question, stripped;
\* the loop goes on to the next item, and when the call is over the body has
\* run on every item.
C25_FailureRejectsOneItem ==
    /\ [][outcomes' = Append(outcomes, "exception") =>
            /\ quiz_data' = quiz_data
            /\ skipped_count' = skipped_count + 1
            /\ Len(output') > Len(output)
            /\ SubSeq(output', 1, Len(output)) = output
            /\ LET line == output'[Len(output')]
               IN  /\ line.kind = "exception"
                   /\ line.at = item_index + 1
                   /\ Len(line.snippet) <= SnippetLen
                   /\ \/ line.snippet = DefaultSnippet
                      \/ /\ HasQuestion(CurrentItem)
                         /\ line.snippet = Snippet(InnerContent(QuestionElement(CurrentItem)))
            /\ item_index' = item_index + 1
            /\ pc' = pc]_vars
    /\ [](Returned => Len(outcomes) = Len(quiz_items))

C25_Witness ==
    /\ Returned
    /\ outcomes = <<"accept", "exception", "accept">>
    /\ Len(quiz_data) = 2
    /\ \E k \in 1..Len(output) :
        /\ output[k].kind = "exception"
        /\ Len(output[k].snippet) = SnippetLen

\* the first direct child of the item whose name is "topic" in any case
FirstTopicField(item) ==
    item.children[CHOOSE k \in 1..Len(item.children) :
        /\ UpperStr(item.children[k].tag) = TOPIC
        /\ \A j \in 1..(k - 1) : UpperStr(item.children[j].tag) # TOPIC]

\* C26: the topic of every record is the stripped text of the first direct
\* child of its item named "topic" in any case, the empty string when that
\* child is empty, and the container's topic attribute when the item has no
\* such child, whatever its other children are.
C26_TopicFromFirstTopicField ==
    \A k \in 1..Len(origin) :
        quiz_data[k].topic =
            IF HasTopicField(quiz_items[origin[k]])
            THEN Strip(FirstTopicField(quiz_items[origin[k]]).text)
            ELSE xml_content.bank.topic

\* C27: after a call on a frame with rows, whatever its row labels are, the
\* row at position p, counted from 0, has difficulty_levels[p] as its
\* difficulty and time_estimates[p] as its time_estimate whenever the
\* argument was passed and has an entry for p.
C27_LevelsByPosition ==
    (EnhanceDone /\ ~IsEmptyFrame(df_before)) =>
        \A k \in 1..Len(df_before.rows) :
            /\ (difficulty_levels.given /\ (k - 1) \in DOMAIN difficulty_levels.map) =>
                    Result.rows[k].difficulty = difficulty_levels.map[k - 1]
            /\ (time_estimates.given /\ (k - 1) \in DOMAIN time_estimates.map) =>
                    Result.rows[k].time_estimate = time_estimates.map[k - 1]

\* C28: a document made of a container with text before it, after it or
\* both gives the same records as the container alone.
C28_ProseChangesNothing ==
    (BothReturned /\ twin.relation = "prose_added") => quiz_data = twin.quiz_data

====
